---- MODULE Spec2Model ----
(***************************************************************************)
(* Model of the environment-wrapper pipeline of robosuite_env.py.          *)
(*                                                                         *)
(* An environment is a value: a record with a field cls naming its class,  *)
(* the fields the class's __init__ sets, and (for a wrapper) the wrapped   *)
(* environment in the field env.  reset and step are the operators Reset   *)
(* and Step, which dispatch on cls as Python dispatches self._env.step,    *)
(* and return the environment after the call together with what the call   *)
(* produced: a TimeStep, or the exception it raised.                       *)
(*                                                                         *)
(* Scalars (reward, discount) are exact rationals <<n, d>> in lowest terms *)
(* and None is <<>>.  The values drawn (0, 1/2, 1, and 9/10 in the fixed   *)
(* scenario) are ones on which Python's float arithmetic gives the same    *)
(* results as exact arithmetic for the sums and products computed here.    *)
(***************************************************************************)
EXTENDS Integers, Sequences, FiniteSets, TLC

VARIABLES env,      \* the environment chain the caller holds
          ret,      \* what the last call produced: [exc, ts]
          op,       \* the last call: "init", "construct", "reset" or "step"
          arg,      \* its argument: the action of a step, the kwargs of a reset
          episode,  \* frames the bottom environment delivered since its last reset
          before,   \* the frame history as it was when the last call began
          handed,   \* the TimeStep the wrapped environment gave the top wrapper
                    \* in the last call, as given and as the call left it
          ncalls    \* calls made so far

vars == <<env, ret, op, arg, episode, before, handed, ncalls>>

-----------------------------------------------------------------------------
(* Bounds of the model *)

MaxCalls == 4
MaxFrames == 3
MaxRepeats == 3
MaxStatelessCalls == 2
MaxFrameId == 1

-----------------------------------------------------------------------------
(* Python values *)

None == <<>>
NoKey == "None"

RECURSIVE GCD(_, _)
GCD(a, b) == IF b = 0 THEN a ELSE GCD(b, a % b)

Abs(n) == IF n < 0 THEN -n ELSE n

\* the rational n/d (d > 0) in lowest terms
Rat(n, d) == LET g == GCD(Abs(n), d) IN <<n \div g, d \div g>>

Zero == Rat(0, 1)
One == Rat(1, 1)

RMul(x, y) == Rat(x[1] * y[1], x[2] * y[2])
RAdd(x, y) == Rat(x[1] * y[2] + y[1] * x[2], x[2] * y[2])

\* Python's `x or default`: the default replaces every falsy x, None and 0.0 alike
PyOr(x, default) == IF x = None \/ x = Zero THEN default ELSE x

\* numpy arrays: shape, dtype and the data as nested sequences
Arr(shape, dtype, data) == [shape |-> shape, dtype |-> dtype, data |-> data]
NoArr == Arr(<<>>, "None", <<>>)

\* float32 holds every integer up to 2^24; between 2^24 and 2^25 only the even
\* ones, and an odd one rounds to the nearest even multiple of 2 (ties to even)
RoundF32(v) ==
    LET a == Abs(v)
        r == IF a <= 16777216 THEN a
             ELSE IF a % 2 = 0 THEN a
             ELSE IF ((a - 1) \div 2) % 2 = 0 THEN a - 1 ELSE a + 1
    IN IF v < 0 THEN -r ELSE r

\* the integral values d of an array of rank n, converted to dtype
RECURSIVE CastData(_, _, _)
CastData(d, n, dtype) ==
    IF n = 0 THEN (IF dtype = "float32" THEN RoundF32(d) ELSE d)
    ELSE [i \in 1..Len(d) |-> CastData(d[i], n - 1, dtype)]

\* ndarray.astype on an array of integral values
AsType(a, dtype) == Arr(a.shape, dtype, CastData(a.data, Len(a.shape), dtype))

\* image.transpose(2, 0, 1).copy() of an H x W x C array
Transpose201(a) ==
    Arr(<<a.shape[3], a.shape[1], a.shape[2]>>, a.dtype,
        [c \in 1..a.shape[3] |->
            [h \in 1..a.shape[1] |->
                [w \in 1..a.shape[2] |-> a.data[h][w][c]]]])

\* image[0]
Index0(a) == Arr(Tail(a.shape), a.dtype, a.data[1])

RECURSIVE ConcatData(_)
ConcatData(arrs) ==
    IF arrs = <<>> THEN <<>> ELSE Head(arrs).data \o ConcatData(Tail(arrs))

RECURSIVE SumDim0(_)
SumDim0(arrs) ==
    IF arrs = <<>> THEN 0 ELSE Head(arrs).shape[1] + SumDim0(Tail(arrs))

\* np.concatenate(arrs, axis=0)
Concatenate(arrs) ==
    Arr(<<SumDim0(arrs)>> \o Tail(Head(arrs).shape), Head(arrs).dtype,
        ConcatData(arrs))

\* OrderedDict: a sequence of items [k, v] in insertion order
DictKeys(d) == [i \in 1..Len(d) |-> d[i].k]
DictHas(d, key) == \E i \in 1..Len(d) : d[i].k = key
DictGet(d, key) == d[CHOOSE i \in 1..Len(d) : d[i].k = key].v

\* d[key] = v: a key already there keeps its place and gets the new value
DictSet(d, key, v) ==
    IF DictHas(d, key)
    THEN [i \in 1..Len(d) |-> IF d[i].k = key THEN [k |-> key, v |-> v] ELSE d[i]]
    ELSE Append(d, [k |-> key, v |-> v])

\* dm_env.TimeStep
TimeStep(step_type, reward, discount, observation) ==
    [step_type |-> step_type, reward |-> reward, discount |-> discount,
     observation |-> observation]

NoTimeStep == TimeStep("None", None, None, <<>>)

\* what a call produces: a returned value, or a raised exception
Returns(e, ts) == [env |-> e, out |-> [exc |-> "", ts |-> ts]]
Raises(e, exc) == [env |-> e, out |-> [exc |-> exc, ts |-> NoTimeStep]]

-----------------------------------------------------------------------------
(* dm_env specs *)

\* specs.Array(shape, dtype, name)
ArraySpec(shape, dtype, name) ==
    [shape |-> shape, dtype |-> dtype, name |-> name,
     bounded |-> FALSE, minimum |-> None, maximum |-> None]

\* specs.BoundedArray(shape, dtype, minimum, maximum, name)
BoundedArraySpec(shape, dtype, minimum, maximum, name) ==
    [shape |-> shape, dtype |-> dtype, name |-> name,
     bounded |-> TRUE, minimum |-> minimum, maximum |-> maximum]

-----------------------------------------------------------------------------
(* The wrapped environment at the bottom of a chain: any dm_env.Environment. *)
(* Its answers are scripted by the caller of the model: script holds the     *)
(* answers to its next calls and log the calls it has served in the current  *)
(* top-level call.                                                           *)

\* the image the environment renders for frame number f: H x W x C = 1 x 2 x 2,
\* every pixel of every frame a different value
Pixel(f, h, w, c) == f * 4 + (w - 1) * 2 + (c - 1)

ImageShape == <<1, 2, 2>>

MkImage(f) ==
    Arr(ImageShape, "uint8",
        [h \in 1..ImageShape[1] |->
            [w \in 1..ImageShape[2] |->
                [c \in 1..ImageShape[3] |-> Pixel(f, h, w, c)]]])

\* the same image with a leading batch dimension of 1
MkBatchedImage(f) == Arr(<<1>> \o ImageShape, "uint8", <<MkImage(f).data>>)

MkVector(v) == Arr(<<2>>, "float64", <<v, 0>>)

\* the observation the environment builds for an answer: one entry per key of
\* its observation spec, an image where the spec is multi-dimensional
MkObs(obs_spec, resp) ==
    [i \in 1..Len(obs_spec) |->
        [k |-> obs_spec[i].k,
         v |-> IF Len(obs_spec[i].v.shape) = 4 THEN MkBatchedImage(resp.frame)
               ELSE IF Len(obs_spec[i].v.shape) = 3 THEN MkImage(resp.frame)
               ELSE MkVector(resp.vec)]]

VectorSpecItem == [k |-> "state", v |-> ArraySpec(<<2>>, "float64", "state")]
ImageSpecItem == [k |-> "image", v |-> ArraySpec(ImageShape, "uint8", "image")]
BatchedSpecItem ==
    [k |-> "image", v |-> ArraySpec(<<1>> \o ImageShape, "uint8", "image")]

ActionSpec ==
    BoundedArraySpec(<<2>>, "float32", <<-1, -1>>, <<1, 1>>, "action")

Env_init(obs_spec) ==
    [cls |-> "Env", obs_spec |-> obs_spec, act_spec |-> ActionSpec,
     script |-> <<>>, log |-> <<>>]

Env_serve(self, call, a) ==
    [self EXCEPT !.script = Tail(@),
                 !.log = Append(@, [call |-> call, arg |-> a,
                                    resp |-> Head(self.script)])]

\* reset(): a FIRST TimeStep (dm_env.restart), or the environment's failure
Env_reset(self, kwargs) ==
    LET resp == Head(self.script)
        e == Env_serve(self, "reset", kwargs)
    IN IF resp.exc # "" THEN Raises(e, resp.exc)
       ELSE Returns(e, TimeStep("FIRST", None, None, MkObs(self.obs_spec, resp)))

\* step(action): the scripted TimeStep, or the environment's failure
Env_step(self, action) ==
    LET resp == Head(self.script)
        e == Env_serve(self, "step", action)
    IN IF resp.exc # "" THEN Raises(e, resp.exc)
       ELSE Returns(e, TimeStep(resp.step_type, resp.reward, resp.discount,
                                MkObs(self.obs_spec, resp)))

-----------------------------------------------------------------------------
(* The deterministic stub of the concrete scenario: every step call answers *)
(* reward 1.0 and discount 0.9, and done from the 5th call on.              *)

ScenarioDoneCall == 5

ScenarioStub_init ==
    [cls |-> "ScenarioStub", obs_spec |-> <<VectorSpecItem, ImageSpecItem>>,
     act_spec |-> ActionSpec, calls |-> 0, script |-> <<>>, log |-> <<>>]

ScenarioStub_answer(calls) ==
    [exc |-> "", frame |-> calls, vec |-> calls,
     step_type |-> IF calls >= ScenarioDoneCall THEN "LAST" ELSE "MID",
     reward |-> Rat(1, 1), discount |-> Rat(9, 10)]

ScenarioStub_reset(self, kwargs) ==
    LET resp == ScenarioStub_answer(self.calls)
    IN Returns([self EXCEPT !.log = Append(@, [call |-> "reset", arg |-> kwargs,
                                                resp |-> resp])],
               TimeStep("FIRST", None, None, MkObs(self.obs_spec, resp)))

ScenarioStub_step(self, action) ==
    LET resp == ScenarioStub_answer(self.calls + 1)
    IN Returns([self EXCEPT !.calls = @ + 1,
                            !.log = Append(@, [call |-> "step", arg |-> action,
                                               resp |-> resp])],
               TimeStep(resp.step_type, resp.reward, resp.discount,
                        MkObs(self.obs_spec, resp)))

-----------------------------------------------------------------------------
(* The robosuite simulator under DMEWrapper.  Its answers are scripted like *)
(* those of Env; physics is 0 after a simulator reset and 1 once stepped.   *)

SimObsSpec ==
    <<[k |-> "robot0_proprio-state",
       v |-> ArraySpec(<<2>>, "float64", "robot0_proprio-state")],
      [k |-> "agentview_image",
       v |-> ArraySpec(ImageShape, "uint8", "agentview_image")],
      [k |-> "object-state", v |-> ArraySpec(<<2>>, "float64", "object-state")]>>

Sim_init ==
    [cls |-> "Sim", obs_spec |-> SimObsSpec,
     use_object_obs |-> TRUE, use_camera_obs |-> TRUE,
     camera_names |-> <<"agentview">>, robots |-> 1,
     action_dim |-> 2, action_spec |-> <<<<-1, -1>>, <<1, 1>>>>,
     physics |-> 0, script |-> <<>>, log |-> <<>>]

\* env.reset() -> observation dictionary
Sim_reset(self) ==
    LET resp == Head(self.script)
        e == Env_serve(self, "reset", "")
    IN IF resp.exc # "" THEN Raises(e, resp.exc)
       ELSE Returns([e EXCEPT !.physics = 0], MkObs(self.obs_spec, resp))

\* env._get_observations(force_update=True) -> observation dictionary
Sim_get_observations(self, force_update) ==
    LET resp == Head(self.script)
        e == Env_serve(self, "_get_observations", force_update)
    IN IF resp.exc # "" THEN Raises(e, resp.exc)
       ELSE Returns(e, MkObs(self.obs_spec, resp))

\* env.step(action) -> (observation, reward, done, info)
Sim_step(self, action) ==
    LET resp == Head(self.script)
        e == Env_serve(self, "step", action)
    IN IF resp.exc # "" THEN Raises(e, resp.exc)
       ELSE Returns([e EXCEPT !.physics = 1],
                    [observation |-> MkObs(self.obs_spec, resp),
                     reward |-> resp.reward, done |-> resp.done])

-----------------------------------------------------------------------------
(* Dispatch of the environment interface *)

LeafClasses == {"Env", "ScenarioStub", "Sim"}

RECURSIVE Reset(_, _)
RECURSIVE Step(_, _)
RECURSIVE ObservationSpec(_)
RECURSIVE ActionSpecOf(_)
RECURSIVE Leaf(_)
RECURSIVE WithLeaf(_, _)

\* the environment at the bottom of the chain e
Leaf(e) == IF e.cls \in LeafClasses THEN e ELSE Leaf(e.env)

\* the chain e with the environment at its bottom replaced
WithLeaf(e, leaf) ==
    IF e.cls \in LeafClasses THEN leaf ELSE [e EXCEPT !.env = WithLeaf(e.env, leaf)]

-----------------------------------------------------------------------------
(* FrameStackWrapper *)

\* the loop of __init__ over the wrapped spec: the last multi-dimensional key
RECURSIVE ImageKeyOf(_, _)
ImageKeyOf(wrapped_obs_spec, found) ==
    IF wrapped_obs_spec = <<>> THEN found
    ELSE ImageKeyOf(Tail(wrapped_obs_spec),
                    IF Len(Head(wrapped_obs_spec).v.shape) > 1
                    THEN Head(wrapped_obs_spec).k ELSE found)

\* the spec __init__ publishes for one wrapped entry
FrameStackWrapper_spec(k, spec, num_frames) ==
    IF Len(spec.shape) > 1
    THEN LET image_shape == IF Len(spec.shape) = 4 THEN Tail(spec.shape)
                            ELSE spec.shape
         IN BoundedArraySpec(
                <<image_shape[3] * num_frames>> \o SubSeq(image_shape, 1, 2),
                "uint8", <<0>>, <<255>>, k)
    ELSE [spec EXCEPT !.dtype = "float32"]

FrameStackWrapper_init(e, num_frames) ==
    LET wrapped_obs_spec == ObservationSpec(e)
    IN [cls |-> "FrameStackWrapper", env |-> e, num_frames |-> num_frames,
        frames |-> <<>>,
        keys |-> DictKeys(wrapped_obs_spec),
        obs_spec |-> [i \in 1..Len(wrapped_obs_spec) |->
                         [k |-> wrapped_obs_spec[i].k,
                          v |-> FrameStackWrapper_spec(wrapped_obs_spec[i].k,
                                                       wrapped_obs_spec[i].v,
                                                       num_frames)]],
        image_key |-> ImageKeyOf(wrapped_obs_spec, NoKey)]

\* a deque that drops its newest element instead of its oldest
DequeAppend_dropnewest(frames, x, maxlen) ==
    IF maxlen = 0 THEN frames
    ELSE IF Len(frames) >= maxlen THEN Append(SubSeq(frames, 1, Len(frames) - 1), x)
    ELSE Append(frames, x)

\* deque(maxlen=n).append(x): a full deque drops its oldest element
DequeAppend(frames, x, maxlen) ==
    IF maxlen = 0 THEN frames
    ELSE IF Len(frames) >= maxlen THEN Append(Tail(frames), x)
    ELSE Append(frames, x)

\* a seeding that appends the first image once instead of n times
AppendTimes_once(frames, image, n, maxlen) == DequeAppend(frames, image, maxlen)

\* for _ in range(n): frames.append(image)
RECURSIVE AppendTimes(_, _, _, _)
AppendTimes(frames, image, n, maxlen) ==
    IF n = 0 THEN frames
    ELSE AppendTimes(DequeAppend(frames, image, maxlen), image, n - 1, maxlen)

\* a transformation that hands a vector entry on as it came
FrameStackWrapper_entry_uncast(self, k, v) ==
    IF k = self.image_key THEN Concatenate(self.frames) ELSE v

\* one entry of the transformed observation
FrameStackWrapper_entry(self, k, v) ==
    IF k = self.image_key THEN Concatenate(self.frames) ELSE AsType(v, "float32")

FrameStackWrapper_transform_observation(self, time_step) ==
    LET ob == time_step.observation
    IN IF \E i \in 1..Len(ob) :
              ob[i].k = self.image_key /\ Len(self.frames) # self.num_frames
       THEN Raises(self, "AssertionError")
       ELSE Returns(self,
                [time_step EXCEPT !.observation =
                    [i \in 1..Len(ob) |->
                        [k |-> ob[i].k,
                         v |-> FrameStackWrapper_entry(self, ob[i].k, ob[i].v)]]])

\* the TimeStep handed to _transform_observation as it reads once the call is
\* over: ob is the TimeStep's own dictionary, and the loop has assigned to
\* every entry before the one whose assertion fails (to all, if none fails)
FrameStackWrapper_transform_observation_inplace(self, time_step) ==
    LET ob == time_step.observation
        failing == {i \in 1..Len(ob) :
                       ob[i].k = self.image_key
                       /\ Len(self.frames) # self.num_frames}
    IN [time_step EXCEPT !.observation =
           [i \in 1..Len(ob) |->
               IF \E f \in failing : f <= i THEN ob[i]
               ELSE [k |-> ob[i].k,
                     v |-> FrameStackWrapper_entry(self, ob[i].k, ob[i].v)]]]

FrameStackWrapper_extract_image(self, time_step) ==
    IF self.image_key = NoKey THEN NoArr
    ELSE LET image == DictGet(time_step.observation, self.image_key)
         IN Transpose201(IF Len(image.shape) = 4 THEN Index0(image) ELSE image)

FrameStackWrapper_reset(self, kwargs) ==
    LET r == Reset(self.env, kwargs)
        inner == [self EXCEPT !.env = r.env]
    IN IF r.out.exc # "" THEN [env |-> inner, out |-> r.out]
       ELSE LET image == FrameStackWrapper_extract_image(inner, r.out.ts)
                seeded == [inner EXCEPT !.frames =
                              AppendTimes(@, image, self.num_frames,
                                          self.num_frames)]
            IN FrameStackWrapper_transform_observation(seeded, r.out.ts)

FrameStackWrapper_step(self, action) ==
    LET r == Step(self.env, action)
        inner == [self EXCEPT !.env = r.env]
    IN IF r.out.exc # "" THEN [env |-> inner, out |-> r.out]
       ELSE LET image == FrameStackWrapper_extract_image(inner, r.out.ts)
                pushed == [inner EXCEPT !.frames =
                              DequeAppend(@, image, self.num_frames)]
            IN FrameStackWrapper_transform_observation(pushed, r.out.ts)

-----------------------------------------------------------------------------
(* DMEWrapper *)

\* "robot{}_proprio-state".format(idx) for idx = 0, 1
RobotKeys == <<"robot0_proprio-state", "robot1_proprio-state">>

\* the keys __init__ computes when none are given
DMEWrapper_default_keys(e) ==
    (IF e.use_object_obs THEN <<"object-state">> ELSE <<>>)
    \o (IF e.use_camera_obs
        THEN [i \in 1..Len(e.camera_names) |-> e.camera_names[i] \o "_image"]
        ELSE <<>>)
    \o [idx \in 1..e.robots |-> RobotKeys[idx]]

\* an assertion that wants every declared key requested
DMEWrapper_init_raises_undeclared(e, keys) ==
    \E j \in 1..Len(e.obs_spec) :
        \A i \in 1..Len(keys) : keys[i] # e.obs_spec[j].k

\* whether __init__'s assertion fails for some requested key
DMEWrapper_init_raises(e, keys) ==
    \E i \in 1..Len(keys) : ~DictHas(e.obs_spec, keys[i])

\* the loop of __init__ over the keys still to come: each is assigned into the
\* OrderedDict observation_spec, so a key named again adds no entry
RECURSIVE DMEWrapper_init_loop(_, _, _)
DMEWrapper_init_loop(ob, keys, observation_spec) ==
    IF keys = <<>> THEN observation_spec
    ELSE LET k == Head(keys)
         IN DMEWrapper_init_loop(
                ob, Tail(keys),
                DictSet(observation_spec, k,
                        ArraySpec(DictGet(ob, k).shape, DictGet(ob, k).dtype, k)))

DMEWrapper_init(e, keys) ==
    [cls |-> "DMEWrapper", env |-> e, keys |-> keys,
     obs_spec |-> DMEWrapper_init_loop(e.obs_spec, keys, <<>>),
     act_spec |-> BoundedArraySpec(<<e.action_dim>>, "float32",
                                   e.action_spec[1], e.action_spec[2], "action")]

\* DMEWrapper(e, keys): the wrapper, or the failure of __init__'s assertion
DMEWrapper_new(e, keys) ==
    IF DMEWrapper_init_raises(e, keys) THEN Raises(e, "AssertionError")
    ELSE Returns(DMEWrapper_init(e, keys), NoTimeStep)

\* an extraction that hands on the simulator's whole dictionary
DMEWrapper_extract_obs_unfiltered(self, obs_dict) == obs_dict

\* the loop of _extract_obs over the keys still to come, assigning into the
\* OrderedDict new_obs_dict
RECURSIVE DMEWrapper_extract_obs_loop(_, _, _)
DMEWrapper_extract_obs_loop(keys, obs_dict, new_obs_dict) ==
    IF keys = <<>> THEN new_obs_dict
    ELSE DMEWrapper_extract_obs_loop(
             Tail(keys), obs_dict,
             DictSet(new_obs_dict, Head(keys), DictGet(obs_dict, Head(keys))))

DMEWrapper_extract_obs(self, obs_dict) ==
    DMEWrapper_extract_obs_loop(self.keys, obs_dict, <<>>)

\* a reset that resets the simulator whatever sim_reset says
DMEWrapper_reset_full(self, kwargs) ==
    LET r == Sim_reset(self.env)
        inner == [self EXCEPT !.env = r.env]
    IN IF r.out.exc # "" THEN [env |-> inner, out |-> r.out]
       ELSE Returns(inner, TimeStep("FIRST", None, None,
                                    DMEWrapper_extract_obs(self, r.out.ts)))

\* reset(sim_reset=True); the kwargs "" leave sim_reset at its default
DMEWrapper_reset(self, kwargs) ==
    LET r == IF kwargs # "sim_reset=False" THEN Sim_reset(self.env)
             ELSE Sim_get_observations(self.env, TRUE)
        inner == [self EXCEPT !.env = r.env]
    IN IF r.out.exc # "" THEN [env |-> inner, out |-> r.out]
       ELSE Returns(inner, TimeStep("FIRST", None, None,
                                    DMEWrapper_extract_obs(self, r.out.ts)))

\* a step that never reports the end of the episode
DMEWrapper_step_type_mid(done) == "MID"

DMEWrapper_step_type(done) == IF done THEN "LAST" ELSE "MID"

DMEWrapper_step(self, action) ==
    LET r == Sim_step(self.env, action)
        inner == [self EXCEPT !.env = r.env]
    IN IF r.out.exc # "" THEN [env |-> inner, out |-> r.out]
       ELSE Returns(inner,
                TimeStep(DMEWrapper_step_type(r.out.ts.done), r.out.ts.reward,
                         Rat(1, 1),
                         DMEWrapper_extract_obs(self, r.out.ts.observation)))

-----------------------------------------------------------------------------
(* ExtendedTimeStepWrapper *)

ExtendedTimeStepWrapper_init(e) == [cls |-> "ExtendedTimeStepWrapper", env |-> e]

\* np.zeros(shape, dtype=dtype) for a 1-d shape
Zeros(shape, dtype) == Arr(shape, dtype, [i \in 1..shape[1] |-> 0])

ExtendedTimeStep(observation, step_type, action, reward, discount) ==
    [step_type |-> step_type, reward |-> reward, discount |-> discount,
     observation |-> observation, action |-> action]

\* an augmentation that copies reward and discount as they are
ExtendedTimeStepWrapper_augment_time_step_raw(self, time_step, action) ==
    LET action_spec == ActionSpecOf(self.env)
        act == IF action = NoArr THEN Zeros(action_spec.shape, action_spec.dtype)
               ELSE action
    IN ExtendedTimeStep(time_step.observation, time_step.step_type, act,
                        time_step.reward, time_step.discount)

ExtendedTimeStepWrapper_augment_time_step(self, time_step, action) ==
    LET action_spec == ActionSpecOf(self.env)
        act == IF action = NoArr THEN Zeros(action_spec.shape, action_spec.dtype)
               ELSE action
    IN ExtendedTimeStep(time_step.observation, time_step.step_type, act,
                        PyOr(time_step.reward, Zero),
                        PyOr(time_step.discount, One))

ExtendedTimeStepWrapper_reset(self, kwargs) ==
    LET r == Reset(self.env, kwargs)
        inner == [self EXCEPT !.env = r.env]
    IN IF r.out.exc # "" THEN [env |-> inner, out |-> r.out]
       ELSE Returns(inner,
                ExtendedTimeStepWrapper_augment_time_step(inner, r.out.ts, NoArr))

\* a step that forgets to hand the action to the augmentation
ExtendedTimeStepWrapper_step_noaction(self, action) ==
    LET r == Step(self.env, action)
        inner == [self EXCEPT !.env = r.env]
    IN IF r.out.exc # "" THEN [env |-> inner, out |-> r.out]
       ELSE Returns(inner,
                ExtendedTimeStepWrapper_augment_time_step(inner, r.out.ts, NoArr))

ExtendedTimeStepWrapper_step(self, action) ==
    LET r == Step(self.env, action)
        inner == [self EXCEPT !.env = r.env]
    IN IF r.out.exc # "" THEN [env |-> inner, out |-> r.out]
       ELSE Returns(inner,
                ExtendedTimeStepWrapper_augment_time_step(inner, r.out.ts, action))

-----------------------------------------------------------------------------
(* ActionRepeatWrapper *)

ActionRepeatWrapper_init(e, num_repeats) ==
    [cls |-> "ActionRepeatWrapper", env |-> e, num_repeats |-> num_repeats]

\* an accumulation that forgets the running discount
ActionRepeatWrapper_reward_undiscounted(reward, discount, time_step) ==
    RAdd(reward, PyOr(time_step.reward, Zero))

\* reward += (time_step.reward or 0.0) * discount
ActionRepeatWrapper_reward(reward, discount, time_step) ==
    RAdd(reward, RMul(PyOr(time_step.reward, Zero), discount))

\* a loop that never stops early, and one that stops after any step
ActionRepeatWrapper_last_never(time_step) == FALSE
ActionRepeatWrapper_last_always(time_step) == TRUE

\* time_step.last()
ActionRepeatWrapper_last(time_step) == time_step.step_type = "LAST"

\* the loop of step from iteration i on; e is the wrapped environment and
\* time_step the TimeStep of the iteration before (none before the first)
RECURSIVE ActionRepeatWrapper_loop(_, _, _, _, _, _, _)

\* a loop that keeps the TimeStep of its first repeat
ActionRepeatWrapper_loop_first(e, action, i, n, reward, discount, time_step) ==
    IF i >= n
    THEN IF time_step = NoTimeStep THEN Raises(e, "UnboundLocalError")
         ELSE Returns(e, [time_step EXCEPT !.reward = reward,
                                           !.discount = discount])
    ELSE LET r == Step(e, action)
         IN IF r.out.exc # "" THEN r
            ELSE LET ts == r.out.ts
                     reward2 == ActionRepeatWrapper_reward(reward, discount, ts)
                 IN IF ts.discount = None THEN Raises(r.env, "TypeError")
                    ELSE LET discount2 == RMul(discount, ts.discount)
                         IN ActionRepeatWrapper_loop(
                                r.env, action,
                                IF ActionRepeatWrapper_last(ts) THEN n ELSE i + 1,
                                n, reward2, discount2,
                                IF time_step = NoTimeStep THEN ts ELSE time_step)

\* a loop that swallows a failure of the wrapped step and goes on repeating
ActionRepeatWrapper_loop_swallow(e, action, i, n, reward, discount, time_step) ==
    IF i >= n
    THEN IF time_step = NoTimeStep THEN Raises(e, "UnboundLocalError")
         ELSE Returns(e, [time_step EXCEPT !.reward = reward,
                                           !.discount = discount])
    ELSE LET r == Step(e, action)
         IN IF r.out.exc # ""
            THEN ActionRepeatWrapper_loop(r.env, action, i + 1, n, reward,
                                          discount, time_step)
            ELSE LET ts == r.out.ts
                     reward2 == ActionRepeatWrapper_reward(reward, discount, ts)
                 IN IF ts.discount = None THEN Raises(r.env, "TypeError")
                    ELSE LET discount2 == RMul(discount, ts.discount)
                         IN ActionRepeatWrapper_loop(
                                r.env, action,
                                IF ActionRepeatWrapper_last(ts) THEN n ELSE i + 1,
                                n, reward2, discount2, ts)

ActionRepeatWrapper_loop(e, action, i, n, reward, discount, time_step) ==
    IF i >= n
    THEN IF time_step = NoTimeStep THEN Raises(e, "UnboundLocalError")
         ELSE Returns(e, [time_step EXCEPT !.reward = reward,
                                           !.discount = discount])
    ELSE LET r == Step(e, action)
         IN IF r.out.exc # "" THEN r
            ELSE LET ts == r.out.ts
                     reward2 == ActionRepeatWrapper_reward(reward, discount, ts)
                 IN IF ts.discount = None THEN Raises(r.env, "TypeError")
                    ELSE LET discount2 == RMul(discount, ts.discount)
                         IN ActionRepeatWrapper_loop(
                                r.env, action,
                                IF ActionRepeatWrapper_last(ts) THEN n ELSE i + 1,
                                n, reward2, discount2, ts)

ActionRepeatWrapper_step(self, action) ==
    LET r == ActionRepeatWrapper_loop(self.env, action, 0, self.num_repeats,
                                      Zero, One, NoTimeStep)
    IN [env |-> [self EXCEPT !.env = r.env], out |-> r.out]

\* reset() takes no keyword arguments
ActionRepeatWrapper_reset(self, kwargs) ==
    IF kwargs # "" THEN Raises(self, "TypeError")
    ELSE LET r == Reset(self.env, kwargs)
         IN [env |-> [self EXCEPT !.env = r.env], out |-> r.out]

-----------------------------------------------------------------------------
(* ActionDTypeWrapper *)

\* __init__ publishes the wrapped action spec with dtype in place of its own
ActionDTypeWrapper_init(e, dtype) ==
    LET wrapped_action_spec == ActionSpecOf(e)
    IN [cls |-> "ActionDTypeWrapper", env |-> e,
        act_spec |-> BoundedArraySpec(wrapped_action_spec.shape, dtype,
                                      wrapped_action_spec.minimum,
                                      wrapped_action_spec.maximum, "action")]

\* a step that casts to the dtype the wrapper publishes
ActionDTypeWrapper_step_published(self, action) ==
    LET r == Step(self.env, AsType(action, self.act_spec.dtype))
    IN [env |-> [self EXCEPT !.env = r.env], out |-> r.out]

ActionDTypeWrapper_step(self, action) ==
    LET r == Step(self.env, AsType(action, ActionSpecOf(self.env).dtype))
    IN [env |-> [self EXCEPT !.env = r.env], out |-> r.out]

\* reset() takes no keyword arguments
ActionDTypeWrapper_reset(self, kwargs) ==
    IF kwargs # "" THEN Raises(self, "TypeError")
    ELSE LET r == Reset(self.env, kwargs)
         IN [env |-> [self EXCEPT !.env = r.env], out |-> r.out]

-----------------------------------------------------------------------------
(* ObsDTypeWrapper *)

\* __init__ publishes every wrapped entry as float32, whatever dtype is passed
ObsDTypeWrapper_init(e, dtype) ==
    LET wrapped_obs_spec == ObservationSpec(e)
    IN [cls |-> "ObsDTypeWrapper", env |-> e,
        obs_spec |-> [i \in 1..Len(wrapped_obs_spec) |->
                         [k |-> wrapped_obs_spec[i].k,
                          v |-> ArraySpec(wrapped_obs_spec[i].v.shape, "float32",
                                          wrapped_obs_spec[i].k)]]]

ObsDTypeWrapper_transform_observation(self, time_step) ==
    LET ob == time_step.observation
    IN Returns(self,
           [time_step EXCEPT !.observation =
               [i \in 1..Len(ob) |->
                   [k |-> ob[i].k, v |-> AsType(ob[i].v, "float32")]]])

\* the TimeStep handed to _transform_observation as it reads once the call is
\* over: ob is the TimeStep's own dictionary and the loop assigns to its entries
ObsDTypeWrapper_transform_observation_inplace(self, time_step) ==
    LET ob == time_step.observation
    IN [time_step EXCEPT !.observation =
           [i \in 1..Len(ob) |->
               [k |-> ob[i].k, v |-> AsType(ob[i].v, "float32")]]]

\* reset() takes no keyword arguments
ObsDTypeWrapper_reset(self, kwargs) ==
    IF kwargs # "" THEN Raises(self, "TypeError")
    ELSE LET r == Reset(self.env, kwargs)
             inner == [self EXCEPT !.env = r.env]
         IN IF r.out.exc # "" THEN [env |-> inner, out |-> r.out]
            ELSE ObsDTypeWrapper_transform_observation(inner, r.out.ts)

ObsDTypeWrapper_step(self, action) ==
    LET r == Step(self.env, action)
        inner == [self EXCEPT !.env = r.env]
    IN IF r.out.exc # "" THEN [env |-> inner, out |-> r.out]
       ELSE ObsDTypeWrapper_transform_observation(inner, r.out.ts)

-----------------------------------------------------------------------------
(* The dispatch itself *)

Reset(e, kwargs) ==
    CASE e.cls = "Env" -> Env_reset(e, kwargs)
      [] e.cls = "ScenarioStub" -> ScenarioStub_reset(e, kwargs)
      [] e.cls = "DMEWrapper" -> DMEWrapper_reset(e, kwargs)
      [] e.cls = "FrameStackWrapper" -> FrameStackWrapper_reset(e, kwargs)
      [] e.cls = "ExtendedTimeStepWrapper" -> ExtendedTimeStepWrapper_reset(e, kwargs)
      [] e.cls = "ActionRepeatWrapper" -> ActionRepeatWrapper_reset(e, kwargs)
      [] e.cls = "ObsDTypeWrapper" -> ObsDTypeWrapper_reset(e, kwargs)
      [] e.cls = "ActionDTypeWrapper" -> ActionDTypeWrapper_reset(e, kwargs)

Step(e, action) ==
    CASE e.cls = "Env" -> Env_step(e, action)
      [] e.cls = "ScenarioStub" -> ScenarioStub_step(e, action)
      [] e.cls = "DMEWrapper" -> DMEWrapper_step(e, action)
      [] e.cls = "FrameStackWrapper" -> FrameStackWrapper_step(e, action)
      [] e.cls = "ExtendedTimeStepWrapper" -> ExtendedTimeStepWrapper_step(e, action)
      [] e.cls = "ActionRepeatWrapper" -> ActionRepeatWrapper_step(e, action)
      [] e.cls = "ObsDTypeWrapper" -> ObsDTypeWrapper_step(e, action)
      [] e.cls = "ActionDTypeWrapper" -> ActionDTypeWrapper_step(e, action)

ObservationSpec(e) ==
    CASE e.cls \in {"Env", "ScenarioStub", "DMEWrapper", "FrameStackWrapper",
                    "ObsDTypeWrapper"}
            -> e.obs_spec
      [] OTHER -> ObservationSpec(e.env)

ActionSpecOf(e) ==
    CASE e.cls \in {"Env", "ScenarioStub", "DMEWrapper", "ActionDTypeWrapper"}
            -> e.act_spec
      [] OTHER -> ActionSpecOf(e.env)

-----------------------------------------------------------------------------
(* The caller: the chains it may hold, the answers it scripts, its calls *)

RECURSIVE HasClass(_, _)
HasClass(e, cls) ==
    e.cls = cls \/ (e.cls \notin LeafClasses /\ HasClass(e.env, cls))

\* how many calls of the bottom environment one step of the chain can make
RECURSIVE Repeats(_)
Repeats(e) ==
    IF e.cls \in LeafClasses THEN 1
    ELSE (IF e.cls = "ActionRepeatWrapper" THEN e.num_repeats ELSE 1)
         * Repeats(e.env)

Half == Rat(1, 2)

Answer(step_type, reward, discount, frame) ==
    [exc |-> "", frame |-> frame, vec |-> 16777217 - frame,
     step_type |-> step_type, reward |-> reward, discount |-> discount]

Failure == [Answer("None", None, None, 0) EXCEPT !.exc = "SimulatorError"]

\* answers after which a repeated step goes on, and answers that end it
FrameAnswers == {Answer("MID", One, One, f) : f \in 0..MaxFrameId}
GoingAnswers ==
    {Answer("MID", One, Half, 0), Answer("MID", None, One, 1),
     Answer("MID", Zero, One, 0)}
EndingAnswers ==
    {Answer("LAST", One, Zero, 1), Answer("LAST", One, Half, 0),
     Answer("FIRST", None, None, 0), Failure}

SimAnswer(reward, done) ==
    [exc |-> "", frame |-> 0, vec |-> 3, reward |-> reward, done |-> done]
SimAnswers ==
    {SimAnswer(r, d) : r \in {Zero, One}, d \in BOOLEAN}
    \cup {[SimAnswer(Zero, FALSE) EXCEPT !.exc = "SimulatorError"]}

Going(e) ==
    IF Leaf(e).cls = "Sim" THEN SimAnswers
    ELSE IF HasClass(e, "FrameStackWrapper") THEN FrameAnswers
    ELSE GoingAnswers

Ending(e) ==
    IF Leaf(e).cls = "Sim" THEN {}
    ELSE IF HasClass(e, "FrameStackWrapper") THEN {Failure}
    ELSE EndingAnswers

\* what the bottom environment answers once a repeated step should have stopped
PadAnswer == Answer("MID", One, One, 0)

RECURSIVE Pad(_)
Pad(k) == IF k = 0 THEN <<>> ELSE <<PadAnswer>> \o Pad(k - 1)

\* the scripts of k answers that differ in what a loop stopping at an ending
\* answer can consume: after an ending answer come only PadAnswers
RECURSIVE Scripts(_, _, _)
Scripts(k, going, ending) ==
    IF k = 1 THEN {<<a>> : a \in going \cup ending}
    ELSE {<<a>> \o Pad(k - 1) : a \in ending}
         \cup {<<a>> \o s : a \in going, s \in Scripts(k - 1, going, ending)}

ResetScripts(e) ==
    IF Leaf(e).cls = "ScenarioStub" THEN {<<>>}
    ELSE IF Leaf(e).cls = "Sim" THEN {<<a>> : a \in SimAnswers}
    ELSE {<<a>> : a \in
             (IF HasClass(e, "FrameStackWrapper") THEN FrameAnswers
              ELSE {Answer("FIRST", None, None, 0)}) \cup {Failure}}

StepScripts(e) ==
    IF Leaf(e).cls = "ScenarioStub" THEN {<<>>}
    ELSE Scripts(Repeats(e), Going(e), Ending(e))

Arm(e, script) == WithLeaf(e, [Leaf(e) EXCEPT !.script = script, !.log = <<>>])
Disarm(e) == WithLeaf(e, [Leaf(e) EXCEPT !.script = <<>>])

Actions == {Arr(<<2>>, "float32", <<1, 0>>), Arr(<<2>>, "float32", <<0, -1>>)}

Kwargs(e) ==
    IF Leaf(e).cls = "Sim" THEN {"", "sim_reset=True", "sim_reset=False"}
    ELSE {""}

FrameStackConfigs ==
    {FrameStackWrapper_init(Env_init(obs_spec), n) :
        obs_spec \in {<<VectorSpecItem, ImageSpecItem>>, <<VectorSpecItem>>,
                      <<BatchedSpecItem, VectorSpecItem>>},
        n \in 1..MaxFrames}

ActionRepeatConfigs ==
    {ActionRepeatWrapper_init(Env_init(<<VectorSpecItem>>), k) :
        k \in 1..MaxRepeats}

\* actions of an agent that computes in float64: one that float32 holds
\* exactly and one that it does not
Float64Actions ==
    {Arr(<<2>>, "float64", <<1, 0>>), Arr(<<2>>, "float64", <<16777217, -1>>)}

ActionDTypeConfigs ==
    {ActionDTypeWrapper_init(Env_init(<<VectorSpecItem>>), "float64")}

ObsDTypeConfigs ==
    {ObsDTypeWrapper_init(Env_init(<<VectorSpecItem, ImageSpecItem>>), "float32")}

ExtendedConfigs == {ExtendedTimeStepWrapper_init(Env_init(<<VectorSpecItem>>))}

DMEConfigs ==
    {DMEWrapper_init(Sim_init, keys) :
        keys \in {<<"robot0_proprio-state", "agentview_image">>,
                  DMEWrapper_default_keys(Sim_init)}}

\* the chain make() builds below ExtendedTimeStepWrapper, with frame_stack 2
PipelineConfigs ==
    {FrameStackWrapper_init(
        DMEWrapper_init(Sim_init, <<"robot0_proprio-state", "agentview_image">>),
        2)}

\* key lists a caller may pass to DMEWrapper: those make() passes for the
\* modalities 'state', 'pixel' and 'tactile', a list that names a key twice,
\* and lists with a key of no robot or camera of the simulator
KeyLists ==
    {<<"robot0_proprio-state", "object-state">>,
     <<"robot0_proprio-state", "agentview_image">>,
     <<"robot0_proprio-state", "agentview_image", "robot0_proprio-state">>,
     <<"robot0_proprio-state", "robot0_touch-state">>,
     <<"robot1_proprio-state">>,
     <<"frontview_image", "object-state">>}

\* a simulator not wrapped yet, and the keys its wrapper will be asked for
Unconstructed(e, keys) == [cls |-> "Unconstructed", env |-> e, keys |-> keys]

UnconstructedConfigs == {Unconstructed(Sim_init, keys) : keys \in KeyLists}

\* frame-stack depth 3, action-repeat 2, over the deterministic stub
ScenarioConfig ==
    ExtendedTimeStepWrapper_init(
        ActionRepeatWrapper_init(FrameStackWrapper_init(ScenarioStub_init, 3), 2))

Configs ==
    FrameStackConfigs \cup ActionRepeatConfigs \cup ExtendedConfigs
    \cup DMEConfigs \cup PipelineConfigs \cup UnconstructedConfigs
    \cup ObsDTypeConfigs \cup ActionDTypeConfigs
    \cup {ScenarioConfig}

IsScenario == Leaf(env).cls = "ScenarioStub"

\* the FrameStackWrapper of the chain e
RECURSIVE FrameStackOf(_)
FrameStackOf(e) == IF e.cls = "FrameStackWrapper" THEN e ELSE FrameStackOf(e.env)

FramesOf(e) ==
    IF HasClass(e, "FrameStackWrapper") THEN FrameStackOf(e).frames ELSE <<>>

CallBound(e) ==
    IF HasClass(e, "FrameStackWrapper") THEN MaxCalls ELSE MaxStatelessCalls

\* the frames delivered since the last reset that returned (none before the
\* first such reset), after the calls in log
RECURSIVE EpisodeAfter(_, _)
EpisodeAfter(ep, log) ==
    IF log = <<>> THEN ep
    ELSE LET c == Head(log)
         IN EpisodeAfter(
                IF c.resp.exc # "" THEN ep
                ELSE IF c.call # "step" THEN <<c.resp.frame>>
                ELSE IF ep = <<>> THEN ep
                ELSE Append(ep, c.resp.frame),
                Tail(log))

\* the wrappers that rewrite the observation of the wrapped TimeStep
Transforming(e) == e.cls \in {"FrameStackWrapper", "ObsDTypeWrapper"}

\* the wrapped TimeStep once the wrapper self has transformed it
InPlace(self, time_step) ==
    IF self.cls = "FrameStackWrapper"
    THEN FrameStackWrapper_transform_observation_inplace(self, time_step)
    ELSE ObsDTypeWrapper_transform_observation_inplace(self, time_step)

NoInner == [given |-> NoTimeStep, left |-> NoTimeStep]

\* what the top wrapper, self after the call, received from the wrapped call
\* whose result is r, and what it left of it
InnerAfter(self, r) ==
    IF Transforming(self) /\ r.out.exc = ""
    THEN [given |-> r.out.ts, left |-> InPlace(self, r.out.ts)]
    ELSE NoInner

Init ==
    /\ handed = NoInner
    /\ env \in Configs
    /\ ret = [exc |-> "", ts |-> NoTimeStep]
    /\ op = "init"
    /\ arg = ""
    /\ episode = <<>>
    /\ before = <<>>
    /\ ncalls = 0

\* the caller calls reset(**kwargs) on the chain it holds
Call_reset(kwargs) ==
    /\ ncalls < CallBound(env)
    /\ IsScenario => ncalls = 0
    /\ \E script \in ResetScripts(env) :
          LET r == Reset(Arm(env, script), kwargs)
          IN /\ env' = Disarm(r.env)
             /\ handed' = IF Transforming(env)
                          THEN InnerAfter(r.env, Reset(Arm(env, script).env, kwargs))
                          ELSE NoInner
             /\ ret' = r.out
             /\ episode' = EpisodeAfter(episode, Leaf(r.env).log)
    /\ before' = FramesOf(env)
    /\ op' = "reset"
    /\ arg' = kwargs
    /\ ncalls' = ncalls + 1

\* the caller calls step(action) on the chain it holds
Call_step(action) ==
    /\ ncalls < CallBound(env)
    /\ IsScenario => ncalls > 0
    /\ \E script \in StepScripts(env) :
          LET r == Step(Arm(env, script), action)
          IN /\ env' = Disarm(r.env)
             /\ handed' = IF Transforming(env)
                          THEN InnerAfter(r.env, Step(Arm(env, script).env, action))
                          ELSE NoInner
             /\ ret' = r.out
             /\ episode' = EpisodeAfter(episode, Leaf(r.env).log)
    /\ before' = FramesOf(env)
    /\ op' = "step"
    /\ arg' = action
    /\ ncalls' = ncalls + 1

\* one action per operation of the class at the top of the chain
DME_Construct ==
    /\ env.cls = "Unconstructed"
    /\ op = "init"
    /\ LET r == DMEWrapper_new(env.env, env.keys)
       IN /\ env' = IF r.out.exc # "" THEN env ELSE r.env
          /\ ret' = r.out
    /\ op' = "construct"
    /\ arg' = env.keys
    /\ UNCHANGED <<episode, before, handed, ncalls>>

DME_Reset ==
    /\ env.cls = "DMEWrapper"
    /\ \E kw \in Kwargs(env) : Call_reset(kw)

DME_Step ==
    /\ env.cls = "DMEWrapper"
    /\ \E a \in Actions : Call_step(a)

FrameStack_Reset ==
    /\ env.cls = "FrameStackWrapper"
    /\ \E kw \in Kwargs(env) : Call_reset(kw)

FrameStack_Step ==
    /\ env.cls = "FrameStackWrapper"
    /\ \E a \in Actions : Call_step(a)

ActionRepeat_Reset ==
    /\ env.cls = "ActionRepeatWrapper"
    /\ Call_reset("")

ActionRepeat_Step ==
    /\ env.cls = "ActionRepeatWrapper"
    /\ \E a \in Actions : Call_step(a)

Extended_Reset ==
    /\ env.cls = "ExtendedTimeStepWrapper"
    /\ \E kw \in Kwargs(env) : Call_reset(kw)

Extended_Step ==
    /\ env.cls = "ExtendedTimeStepWrapper"
    /\ \E a \in Actions : Call_step(a)

ObsDType_Reset ==
    /\ env.cls = "ObsDTypeWrapper"
    /\ \E kw \in Kwargs(env) : Call_reset(kw)

ObsDType_Step ==
    /\ env.cls = "ObsDTypeWrapper"
    /\ \E a \in Actions : Call_step(a)

ActionDType_Reset ==
    /\ env.cls = "ActionDTypeWrapper"
    /\ \E kw \in Kwargs(env) : Call_reset(kw)

ActionDType_Step ==
    /\ env.cls = "ActionDTypeWrapper"
    /\ \E a \in Float64Actions : Call_step(a)

Next ==
    \/ DME_Construct
    \/ DME_Reset
    \/ DME_Step
    \/ FrameStack_Reset
    \/ FrameStack_Step
    \/ ActionRepeat_Reset
    \/ ActionRepeat_Step
    \/ Extended_Reset
    \/ Extended_Step
    \/ ObsDType_Reset
    \/ ObsDType_Step
    \/ ActionDType_Reset
    \/ ActionDType_Step

Spec == Init /\ [][Next]_vars

-----------------------------------------------------------------------------
(* What the claims speak of *)

Log == Leaf(env).log
Returned == ret.exc = ""
Stacking == HasClass(env, "FrameStackWrapper") /\ FrameStackOf(env).image_key # NoKey
NumFrames == FrameStackOf(env).num_frames
Frames == FrameStackOf(env).frames
StackedImage == DictGet(ret.ts.observation, FrameStackOf(env).image_key)

\* frame f as one channel-first history entry, written pixel by pixel
FrameCHW(f) ==
    Arr(<<ImageShape[3], ImageShape[1], ImageShape[2]>>, "uint8",
        [c \in 1..ImageShape[3] |->
            [h \in 1..ImageShape[1] |->
                [w \in 1..ImageShape[2] |-> Pixel(f, h, w, c)]]])

\* the frames fs, oldest first, stacked along the channel axis: channel i of
\* the stack is channel ((i-1) mod C)+1 of frame ((i-1) div C)+1
StackOf(fs) ==
    Arr(<<ImageShape[3] * Len(fs), ImageShape[1], ImageShape[2]>>, "uint8",
        [i \in 1..(ImageShape[3] * Len(fs)) |->
            [h \in 1..ImageShape[1] |->
                [w \in 1..ImageShape[2] |->
                    Pixel(fs[((i - 1) \div ImageShape[3]) + 1], h, w,
                          ((i - 1) % ImageShape[3]) + 1)]]])

Copies(n, f) == [j \in 1..n |-> f]

LastN(seq, n) == SubSeq(seq, Len(seq) - n + 1, Len(seq))

\* C1: immediately after every reset that returns, whatever came before, the
\* frame history holds exactly N frames, each the single post-reset frame, and
\* the returned stacked image is those N copies along the channel axis (N times
\* the native channel count); nothing of an earlier episode is left.
C1_ResetSeedsHistory ==
    (Stacking /\ op = "reset" /\ Returned) =>
        /\ Len(episode) = 1
        /\ Len(Frames) = NumFrames
        /\ Frames = Copies(NumFrames, FrameCHW(episode[1]))
        /\ StackedImage = StackOf(Copies(NumFrames, episode[1]))
        /\ StackedImage.shape[1] = NumFrames * ImageShape[3]

\* a reset of depth 3 that returned, issued when the history was full and its
\* newest frame was another frame than the post-reset one
C1_Witness ==
    /\ Stacking /\ op = "reset" /\ Returned
    /\ NumFrames = 3
    /\ Len(before) = 3
    /\ before[3] # FrameCHW(episode[1])
    /\ before[3] # before[1]

\* C2: after a reset and M steps the stacked image of the M-th step is, oldest
\* to newest, the last N of (N copies of the initial frame, then f1..fM), and
\* the history never holds more than N frames.
C2_SlidingWindow ==
    /\ HasClass(env, "FrameStackWrapper") => Len(Frames) <= NumFrames
    /\ (Stacking /\ op = "step" /\ Returned /\ episode # <<>>) =>
          LET window == LastN(Copies(NumFrames, episode[1]) \o Tail(episode),
                              NumFrames)
          IN /\ StackedImage = StackOf(window)
             /\ Frames = [j \in 1..NumFrames |-> FrameCHW(window[j])]

\* depth 3, two steps after the reset (M = 2 < N) with pushed frames that differ
\* from each other and the first from the initial frame
C2_Witness ==
    /\ Stacking /\ op = "step" /\ Returned
    /\ NumFrames = 3
    /\ Len(episode) = 3
    /\ episode[2] # episode[1]
    /\ episode[3] # episode[2]
    /\ StackedImage = StackOf(<<episode[1], episode[2], episode[3]>>)

\* more steps than the depth (M = 3 > N = 2): both seeded copies and the first
\* pushed frame have left the window
C2_EvictionWitness ==
    /\ Stacking /\ op = "step" /\ Returned
    /\ NumFrames = 2
    /\ Len(episode) = 4
    /\ episode[3] # episode[4]
    /\ StackedImage = StackOf(<<episode[3], episode[4]>>)


-----------------------------------------------------------------------------
(* ActionRepeatWrapper: what the repeated step composes *)

Repeating == env.cls = "ActionRepeatWrapper"
NumRepeats == env.num_repeats

RSub(x, y) == RAdd(x, <<-y[1], y[2]>>)

RECURSIVE RPow(_, _)
RPow(x, n) == IF n = 0 THEN One ELSE RMul(x, RPow(x, n - 1))

Absent0(x) == IF x = None THEN Zero ELSE x

\* the product of the discounts of the first n inner steps
RECURSIVE DiscountProduct(_, _)
DiscountProduct(log, n) ==
    IF n = 0 THEN One
    ELSE RMul(DiscountProduct(log, n - 1), log[n].resp.discount)

\* the sum over the first n inner steps j of reward_j times the product of the
\* discounts of the steps before j
RECURSIVE DiscountedSum(_, _)
DiscountedSum(log, n) ==
    IF n = 0 THEN Zero
    ELSE RAdd(DiscountedSum(log, n - 1),
              RMul(Absent0(log[n].resp.reward), DiscountProduct(log, n - 1)))

NoLast(log) == \A j \in 1..Len(log) : log[j].resp.step_type # "LAST"

\* every inner step answered the same present reward and discount, none LAST
Constant(log) ==
    /\ NoLast(log)
    /\ log[1].resp.reward # None
    /\ \A j \in 1..Len(log) :
          /\ log[j].resp.reward = log[1].resp.reward
          /\ log[j].resp.discount = log[1].resp.discount

\* C3: a repeated step that returns has as discount the product of the
\* discounts of the inner steps it executed and as reward the sum of their
\* rewards (absent as 0), each weighted by the product of the discounts before
\* it; with no LAST it executes exactly K inner steps, and with constant reward
\* r and discount g it returns r(1 + g + ... + g^(K-1)) and g^K.
C3_DiscountedComposition ==
    (Repeating /\ op = "step" /\ Returned) =>
        /\ ret.ts.discount = DiscountProduct(Log, Len(Log))
        /\ ret.ts.reward = DiscountedSum(Log, Len(Log))
        /\ NoLast(Log) => Len(Log) = NumRepeats
        /\ Constant(Log) =>
              LET r == Log[1].resp.reward
                  g == Log[1].resp.discount
              IN /\ ret.ts.discount = RPow(g, NumRepeats)
                 /\ RMul(ret.ts.reward, RSub(One, g))
                        = RMul(r, RSub(One, RPow(g, NumRepeats)))
                 /\ g = One => ret.ts.reward = RMul(r, Rat(NumRepeats, 1))

\* three repeats of reward 1 and discount 1/2: 1 + 1/2 + 1/4 and 1/8
C3_Witness ==
    /\ Repeating /\ op = "step" /\ Returned
    /\ NumRepeats = 3
    /\ Len(Log) = 3
    /\ \A j \in 1..3 : Log[j].resp = Answer("MID", One, Half, 0)
    /\ ret.ts.reward = Rat(7, 4)
    /\ ret.ts.discount = Rat(1, 8)

FirstLast(log) ==
    CHOOSE i \in 1..Len(log) :
        /\ log[i].resp.step_type = "LAST"
        /\ \A j \in 1..(i - 1) : log[j].resp.step_type # "LAST"

\* C4: when an inner step of a repeated step reports LAST, that inner step is
\* the last one issued in the call (i+1 steps for 0-based index i, not K), every
\* inner step got the caller's action, and the call returns a LAST step.
C4_StopsAtLast ==
    (Repeating /\ op = "step" /\ ~NoLast(Log)) =>
        /\ Len(Log) = FirstLast(Log)
        /\ \A j \in 1..Len(Log) : Log[j].call = "step" /\ Log[j].arg = arg
        /\ Returned
        /\ ret.ts.step_type = "LAST"

\* three repeats asked for, LAST reported by the second inner step
C4_Witness ==
    /\ Repeating /\ op = "step" /\ Returned
    /\ NumRepeats = 3
    /\ Len(Log) = 2
    /\ Log[1].resp.step_type = "MID"
    /\ Log[2].resp.step_type = "LAST"
    /\ ret.ts.step_type = "LAST"


-----------------------------------------------------------------------------
(* FrameStackWrapper before any reset *)

\* C5: a step of FrameStackWrapper before any reset has returned raises an
\* error instead of returning a Step, for every depth and with or without an
\* image entry.
C5_StepBeforeResetRaises ==
    (env.cls = "FrameStackWrapper" /\ op = "step" /\ episode = <<>>) => ~Returned

-----------------------------------------------------------------------------
(* ExtendedTimeStepWrapper directly over the scripted environment *)

Extending == env.cls = "ExtendedTimeStepWrapper"
Called == op \in {"reset", "step"}

\* the TimeStep the wrapped environment returned to the wrapper
InnerReward == IF op = "reset" THEN None ELSE Log[1].resp.reward
InnerDiscount == IF op = "reset" THEN None ELSE Log[1].resp.discount
InnerStepType == IF op = "reset" THEN "FIRST" ELSE Log[1].resp.step_type
InnerObservation == MkObs(Leaf(env).obs_spec, Log[1].resp)

\* C6: every record ExtendedTimeStepWrapper returns has a reward and a
\* discount; an absent reward has become 0.0 and an absent discount 1.0, and
\* the FIRST record of a reset has reward 0.0 and discount 1.0.
C6_AbsentCoerced ==
    (Extending /\ Called /\ Returned) =>
        /\ ret.ts.reward # None
        /\ ret.ts.discount # None
        /\ ~IsScenario =>
              /\ InnerReward = None => ret.ts.reward = Zero
              /\ InnerDiscount = None => ret.ts.discount = One
        /\ op = "reset" =>
              /\ ret.ts.step_type = "FIRST"
              /\ ret.ts.reward = Zero
              /\ ret.ts.discount = One

\* the record of a step whose inner TimeStep had neither reward nor discount
C6_Witness ==
    /\ Extending /\ ~IsScenario /\ op = "step" /\ Returned
    /\ InnerReward = None
    /\ InnerDiscount = None
    /\ ret.ts.reward = Zero
    /\ ret.ts.discount = One

\* C7: for an inner Step whose reward and discount are present (0.0 included)
\* the record has the inner Step's phase, reward, discount and observation.
C7_PresentUnchanged ==
    (Extending /\ ~IsScenario /\ op = "step" /\ Returned
        /\ InnerReward # None /\ InnerDiscount # None) =>
        /\ ret.ts.step_type = InnerStepType
        /\ ret.ts.reward = InnerReward
        /\ ret.ts.discount = InnerDiscount
        /\ ret.ts.observation = InnerObservation

\* C8: step(a) reaches the wrapped environment exactly once, with a, and the
\* record's action is a; the record of reset has the all-zero action of the
\* shape and dtype of action_spec().
C8_ActionAttached ==
    (Extending /\ ~IsScenario) =>
        /\ op = "step" =>
              /\ Len(Log) = 1
              /\ Log[1].call = "step"
              /\ Log[1].arg = arg
              /\ Returned => ret.ts.action = arg
        /\ (op = "reset" /\ Returned) =>
              /\ ret.ts.action.shape = ActionSpecOf(env).shape
              /\ ret.ts.action.dtype = ActionSpecOf(env).dtype
              /\ Len(ret.ts.action.data) = ActionSpecOf(env).shape[1]
              /\ \A i \in 1..Len(ret.ts.action.data) : ret.ts.action.data[i] = 0

\* a step with a non-zero action that returned a record carrying that action
C8_Witness ==
    /\ Extending /\ ~IsScenario /\ op = "step" /\ Returned
    /\ arg.data = <<0, -1>>
    /\ Log[1].arg = arg
    /\ ret.ts.action = arg

-----------------------------------------------------------------------------
(* DMEWrapper over the simulator *)

\* C9: reset yields FIRST with absent reward and discount; step yields LAST
\* exactly when the simulator reports done and MID otherwise, with the
\* simulator's reward and discount 1.0; FIRST comes from reset only.
C9_Phases ==
    (env.cls = "DMEWrapper" /\ Called /\ Returned) =>
        /\ op = "reset" =>
              /\ ret.ts.step_type = "FIRST"
              /\ ret.ts.reward = None
              /\ ret.ts.discount = None
        /\ op = "step" =>
              /\ ret.ts.step_type = "LAST" <=> Log[1].resp.done
              /\ ret.ts.step_type = "MID" <=> ~Log[1].resp.done
              /\ ret.ts.reward = Log[1].resp.reward
              /\ ret.ts.discount = One
        /\ ret.ts.step_type = "FIRST" => op = "reset"

\* a step on which the simulator reported done
C9_Witness ==
    /\ env.cls = "DMEWrapper" /\ op = "step" /\ Returned
    /\ Log[1].resp.done
    /\ ret.ts.step_type = "LAST"
    /\ ret.ts.discount = One

-----------------------------------------------------------------------------
(* The concrete scenario: depth 3, repeat 2, the deterministic stub *)

StubCalls == Leaf(env).calls

\* C10: the record of reset is FIRST with reward 0.0; the first outer step
\* returns reward 1.9 and discount 0.81; the outer step in which the stub's 5th
\* call occurs returns LAST after a single inner step.
C10_Scenario ==
    IsScenario =>
        /\ op = "reset" =>
              /\ Returned
              /\ ret.ts.step_type = "FIRST"
              /\ ret.ts.reward = Zero
        /\ (op = "step" /\ ncalls = 2) =>
              /\ Returned
              /\ ret.ts.reward = Rat(19, 10)
              /\ ret.ts.discount = Rat(81, 100)
        /\ (op = "step" /\ StubCalls - Len(Log) < ScenarioDoneCall
                        /\ ScenarioDoneCall <= StubCalls) =>
              /\ Returned
              /\ ret.ts.step_type = "LAST"
              /\ Len(Log) = 1
              /\ StubCalls = ScenarioDoneCall

\* the third outer step: the stub's 5th call, answered LAST
C10_Witness ==
    /\ IsScenario /\ op = "step" /\ Returned
    /\ ncalls = 4
    /\ StubCalls = 5
    /\ Len(Log) = 1
    /\ ret.ts.step_type = "LAST"


-----------------------------------------------------------------------------
(* DMEWrapper and the FrameStackWrapper above it: the observation keys *)

Filtering == HasClass(env, "DMEWrapper")

\* the DMEWrapper of the chain e
RECURSIVE DMEOf(_)
DMEOf(e) == IF e.cls = "DMEWrapper" THEN e ELSE DMEOf(e.env)

\* the keys of s in the order of their first mention, each once
RECURSIVE Distinct(_)
Distinct(s) ==
    IF s = <<>> THEN <<>>
    ELSE LET r == Distinct(SubSeq(s, 1, Len(s) - 1))
         IN IF \E i \in 1..Len(r) : r[i] = s[Len(s)] THEN r
            ELSE Append(r, s[Len(s)])

\* the retained keys: the keys the wrapper was given, a key named twice
\* counting once
RetainedKeys == Distinct(DMEOf(env).keys)

\* C11: after any sequence of reset and step calls observation_spec() of
\* DMEWrapper, and of FrameStackWrapper above it, has exactly the retained keys
\* in the configured order, as at construction, and so has the observation of
\* every Step returned.
C11_KeysStable ==
    Filtering =>
        /\ DictKeys(ObservationSpec(DMEOf(env))) = RetainedKeys
        /\ ObservationSpec(DMEOf(env))
              = DMEWrapper_init(Sim_init, DMEOf(env).keys).obs_spec
        /\ \A i \in 1..Len(RetainedKeys) :
              ObservationSpec(DMEOf(env))[i].v.name = RetainedKeys[i]
        /\ DictKeys(ObservationSpec(env)) = RetainedKeys
        /\ (Called /\ Returned) => DictKeys(ret.ts.observation) = RetainedKeys

\* a step through FrameStackWrapper and DMEWrapper, after earlier calls, that
\* returned two of the simulator's three entries
C11_Witness ==
    /\ Filtering /\ env.cls = "FrameStackWrapper"
    /\ op = "step" /\ Returned /\ ncalls >= 3
    /\ Len(Leaf(env).obs_spec) = 3
    /\ DictKeys(ret.ts.observation) = <<"robot0_proprio-state", "agentview_image">>


\* a step of a wrapper that was given a key twice and returned it once
C11_RepeatedKeyWitness ==
    /\ env.cls = "DMEWrapper" /\ op = "step" /\ Returned
    /\ env.keys = <<"robot0_proprio-state", "agentview_image",
                    "robot0_proprio-state">>
    /\ DictKeys(ret.ts.observation) = <<"robot0_proprio-state", "agentview_image">>
    /\ DictKeys(env.obs_spec) = <<"robot0_proprio-state", "agentview_image">>

-----------------------------------------------------------------------------
(* Failures of the bottom environment *)

\* the calls of this request that the bottom environment answered by failing
FailedCalls == {i \in 1..Len(Log) : Log[i].resp.exc # ""}

\* C12: a failure of the bottom environment during reset or step reaches the
\* caller through every wrapper: the request raises that failure and returns no
\* Step, and the failing call is the last one made for the request, so nothing
\* is retried and a repeated step makes none of its remaining repeats.
C12_FailurePropagates ==
    \A i \in FailedCalls :
        /\ ret.exc = Log[i].resp.exc
        /\ ret.ts = NoTimeStep
        /\ i = Len(Log)

\* a repeated step whose second of three repeats failed
C12_Witness ==
    /\ Repeating /\ op = "step" /\ NumRepeats = 3
    /\ Len(Log) = 2 /\ FailedCalls = {2}
    /\ ret.exc = "SimulatorError"

\* a failure below FrameStackWrapper and DMEWrapper
C12_PipelineWitness ==
    /\ Filtering /\ env.cls = "FrameStackWrapper"
    /\ FailedCalls # {} /\ ret.exc = "SimulatorError"


-----------------------------------------------------------------------------
(* Construction of DMEWrapper *)

\* the observation keys the simulator under the (future) wrapper declares
DeclaredKeys == {SimObsSpec[j].k : j \in 1..Len(SimObsSpec)}

\* C13: constructing DMEWrapper with a key list that holds a key the wrapped
\* environment does not declare fails and produces no wrapper; with every
\* requested key declared it produces the wrapper of exactly those keys.
C13_ConstructionChecksKeys ==
    op = "construct" =>
        IF \E i \in 1..Len(arg) : arg[i] \notin DeclaredKeys
        THEN env.cls = "Unconstructed" /\ ret.exc = "AssertionError"
        ELSE /\ env.cls = "DMEWrapper" /\ ret.exc = ""
             /\ env.keys = arg /\ DictKeys(env.obs_spec) = Distinct(arg)

\* a construction that failed on its second key, the first being declared
C13_Witness ==
    /\ op = "construct" /\ ret.exc = "AssertionError"
    /\ env.cls = "Unconstructed"
    /\ arg[1] \in DeclaredKeys /\ arg[2] \notin DeclaredKeys

\* a construction that succeeded
C13_SuccessWitness ==
    /\ op = "construct" /\ ret.exc = ""
    /\ env.cls = "DMEWrapper" /\ env.keys = <<"robot0_proprio-state", "object-state">>


-----------------------------------------------------------------------------
(* The wrapped TimeStep under FrameStackWrapper and ObsDTypeWrapper *)

\* C14: when FrameStackWrapper or ObsDTypeWrapper transforms the Step of the
\* wrapped environment, that Step, the contents of its observation mapping
\* included, is the same after the transformation as before it.
C14_InnerStepUntouched ==
    (Transforming(env) /\ handed # NoInner) => handed.left = handed.given

\* the transformation hands out a Step whose observation is the very mapping
\* the wrapped Step holds, with the entries the loop assigned
C14_SharedMapping ==
    (Transforming(env) /\ handed # NoInner /\ Returned)
        => handed.left.observation = ret.ts.observation


-----------------------------------------------------------------------------
(* ActionRepeatWrapper: the Step it returns *)

\* the TimeStep the wrapped environment returned for its i-th call
InnerTimeStep(i) ==
    TimeStep(Log[i].resp.step_type, Log[i].resp.reward, Log[i].resp.discount,
             MkObs(Leaf(env).obs_spec, Log[i].resp))

\* C15: the Step ActionRepeatWrapper.step returns is the Step of the last inner
\* step it executed with only reward and discount replaced: its phase and its
\* observation are those of that last inner step.
C15_LastInnerStep ==
    (Repeating /\ op = "step" /\ Returned) =>
        /\ ret.ts.step_type = InnerTimeStep(Len(Log)).step_type
        /\ ret.ts.observation = InnerTimeStep(Len(Log)).observation
        /\ ret.ts = [InnerTimeStep(Len(Log)) EXCEPT !.reward = ret.ts.reward,
                                                    !.discount = ret.ts.discount]

\* a repeated step whose last inner step differs from its first in phase and
\* in observation
C15_Witness ==
    /\ Repeating /\ op = "step" /\ Returned
    /\ Len(Log) >= 2
    /\ InnerTimeStep(1).step_type = "MID"
    /\ InnerTimeStep(Len(Log)).step_type = "LAST"
    /\ InnerTimeStep(1).observation # InnerTimeStep(Len(Log)).observation
    /\ ret.ts.step_type = "LAST"


-----------------------------------------------------------------------------
(* FrameStackWrapper over an environment without an image entry *)

PassingThrough == env.cls = "FrameStackWrapper" /\ env.image_key = NoKey

\* the integers of magnitude below 2^25 that float32 holds
IsF32(x) == Abs(x) <= 16777216 \/ x % 2 = 0

\* the float32 nearest to the integer x, of magnitude below 2^25: x itself, or
\* of its two neighbours the one with the even significand
NearestF32(x) ==
    IF IsF32(x) THEN x
    ELSE CHOOSE y \in {x - 1, x + 1} : (y \div 2) % 2 = 0

\* the float cast of a vector
FloatCast(v) ==
    [shape |-> v.shape, dtype |-> "float32",
     data |-> [i \in 1..Len(v.data) |-> NearestF32(v.data[i])]]

\* C16: over an environment whose observation spec has no multi-dimensional
\* entry FrameStackWrapper passes observations through, for every depth N:
\* each reset and step the wrapped environment answers returns a Step with the
\* keys of the inner observation, in order, each entry the float cast of the
\* inner value, and no stacked entry.
C16_PassThrough ==
    (PassingThrough /\ Called /\ FailedCalls = {}) =>
        /\ Returned
        /\ DictKeys(ret.ts.observation) = DictKeys(InnerTimeStep(1).observation)
        /\ \A i \in 1..Len(ret.ts.observation) :
              ret.ts.observation[i].v
                  = FloatCast(InnerTimeStep(1).observation[i].v)
        /\ ret.ts.step_type = (IF op = "reset" THEN "FIRST"
                               ELSE InnerTimeStep(1).step_type)

\* a step at depth 2 passed through a vector that float32 cannot hold exactly
C16_Witness ==
    /\ PassingThrough /\ env.num_frames = 2
    /\ op = "step" /\ Returned /\ ncalls >= 2
    /\ InnerTimeStep(1).observation[1].v.data[1] = 16777217
    /\ ret.ts.observation[1].v = Arr(<<2>>, "float32", <<16777216, 0>>)


-----------------------------------------------------------------------------
(* DMEWrapper.reset with and without a simulator reset *)

\* the simulator's answer resp, read through the retained keys
Retained(keys, resp) ==
    [i \in 1..Len(Distinct(keys)) |->
        [k |-> Distinct(keys)[i],
         v |-> DictGet(MkObs(SimObsSpec, resp), Distinct(keys)[i])]]

\* what a DMEWrapper reset that began in the unprimed state did
SoftReset ==
    /\ Len(Log') = 1
    /\ Log'[1].call = "_get_observations" /\ Log'[1].arg = TRUE
    /\ Leaf(env').physics = Leaf(env).physics
    /\ Log'[1].resp.exc = "" =>
          /\ ret'.exc = ""
          /\ ret'.ts = TimeStep("FIRST", None, None,
                                Retained(env.keys, Log'[1].resp))

FullReset ==
    /\ Len(Log') = 1
    /\ Log'[1].call = "reset"
    /\ Log'[1].resp.exc = "" =>
          /\ ret'.exc = "" /\ ret'.ts.step_type = "FIRST"
          /\ Leaf(env').physics = 0

\* C17: DMEWrapper.reset(sim_reset=True), the default, makes exactly one full
\* simulator reset and no other simulator call; reset(sim_reset=False) makes no
\* simulator reset and no simulator step, only one forced re-read of the
\* observation, leaves the physics state as it was, and still returns a FIRST
\* Step of the re-read observation filtered to the retained keys.
C17_SimReset ==
    [][(env.cls = "DMEWrapper" /\ op' = "reset") =>
          IF arg' = "sim_reset=False" THEN SoftReset ELSE FullReset]_vars

\* a reset without simulator reset, after a step had moved the physics
C17_Witness ==
    /\ env.cls = "DMEWrapper" /\ op = "reset" /\ arg = "sim_reset=False"
    /\ Returned /\ ret.ts.step_type = "FIRST"
    /\ Leaf(env).physics = 1
    /\ Log[1].call = "_get_observations"


-----------------------------------------------------------------------------
(* ActionDTypeWrapper: the action it forwards and the spec it publishes *)

CastingActions == env.cls = "ActionDTypeWrapper"

\* the dtype ActionDTypeWrapper was constructed with in ActionDTypeConfigs
TargetDType == "float64"

\* C18: ActionDTypeWrapper.step forwards to the wrapped environment, exactly
\* once, the action cast to the wrapped environment's action dtype, not to the
\* dtype the wrapper publishes; action_spec() publishes the target dtype with
\* the wrapped shape and bounds; casting the forwarded action again changes
\* nothing.
C18_ActionCast ==
    CastingActions =>
        /\ ActionSpecOf(env).dtype = TargetDType
        /\ ActionSpecOf(env).shape = ActionSpecOf(env.env).shape
        /\ ActionSpecOf(env).minimum = ActionSpecOf(env.env).minimum
        /\ ActionSpecOf(env).maximum = ActionSpecOf(env.env).maximum
        /\ op = "step" =>
              /\ Len(Log) = 1 /\ Log[1].call = "step"
              /\ Log[1].arg.dtype = ActionSpecOf(env.env).dtype
              /\ Log[1].arg.dtype # ActionSpecOf(env).dtype
              /\ Log[1].arg = FloatCast(arg)
              /\ AsType(Log[1].arg, ActionSpecOf(env.env).dtype) = Log[1].arg

\* a float64 action that reached the wrapped environment as float32, rounded
C18_Witness ==
    /\ CastingActions /\ op = "step" /\ Returned
    /\ arg = Arr(<<2>>, "float64", <<16777217, -1>>)
    /\ Log[1].arg = Arr(<<2>>, "float32", <<16777216, -1>>)
    /\ ActionSpecOf(env).dtype = "float64"

====
